---- MODULE Spec2Model ----
(***************************************************************************)
(* Model of the interest-autocomplete engine of src/App.tsx (component     *)
(* App): the suggestion cache, local resolution, remote fetch, preload,    *)
(* the debounced search effect and the selection handlers.                 *)
(*                                                                         *)
(* Strings are sequences of one-character strings, so that trim,           *)
(* toLowerCase, startsWith, includes and the separator regex are computed  *)
(* and not assumed.  React state is one variable per useState hook.  A     *)
(* callback reads the values of the render it was created in (rendered)    *)
(* and its setState calls change the state at once; React renders later,   *)
(* in a step of its own (Rerender), in which the effects whose             *)
(* dependencies were given a new value run again.  An event of the user is *)
(* rendered in the step of its handler.  Arrays and objects are compared   *)
(* by identity: every list that is filtered or received is a new array,    *)
(* and resultsKey and fresh keep what the comparisons of the code need.    *)
(***************************************************************************)
EXTENDS Integers, Sequences, FiniteSets, Bags, TLC

VARIABLES searchQuery, suggestions, allFetchedSuggestions, loading, error,
          selectedInterests, suggestionsCache, lastSearchResults,
          lastValidQuery, searchTimeout, initialFetchDone, inflight,
          preloads, requested, userActions, timers,
          rendered, dirty, fresh, resultsKey

vars == <<searchQuery, suggestions, allFetchedSuggestions, loading, error,
          selectedInterests, suggestionsCache, lastSearchResults,
          lastValidQuery, searchTimeout, initialFetchDone, inflight,
          preloads, requested, userActions, timers,
          rendered, dirty, fresh, resultsKey>>

----------------------------------------------------------------------------
(* Bound of the model *)

\* the number of things the user does in a session: changes of the text,
\* selections, removals and creations of custom interests; userActions is
\* the number of those still to come
MaxUserActions == 2

----------------------------------------------------------------------------
(* Strings *)

undefined == <<"undefined">>
noId == "undefined"
null == "null"

\* toLowerCase on the letters that a string of the model can hold: the
\* letters A to Z; every other character of the model has no lowercase form
UpperToLower ==
  [A |-> "a", B |-> "b", C |-> "c", D |-> "d", E |-> "e", F |-> "f",
   G |-> "g", H |-> "h", I |-> "i", J |-> "j", K |-> "k", L |-> "l",
   M |-> "m", N |-> "n", O |-> "o", P |-> "p", Q |-> "q", R |-> "r",
   S |-> "s", T |-> "t", U |-> "u", V |-> "v", W |-> "w", X |-> "x",
   Y |-> "y", Z |-> "z"]

\* the characters of \s and of trim() that a string of the model can hold:
\* the space, the tab, the line feed, the carriage return, the form feed and
\* the vertical tab (U+000B, the last of the set)
Whitespace == {" ", "\t", "\n", "\r", "\f", ""}

toLowerCase(str) ==
  [i \in 1..Len(str) |->
     IF str[i] \in DOMAIN UpperToLower THEN UpperToLower[str[i]] ELSE str[i]]

RECURSIVE trimStart(_)
trimStart(str) ==
  IF str # <<>> /\ Head(str) \in Whitespace THEN trimStart(Tail(str)) ELSE str

RECURSIVE trimEnd(_)
trimEnd(str) ==
  IF str # <<>> /\ str[Len(str)] \in Whitespace
  THEN trimEnd(SubSeq(str, 1, Len(str) - 1))
  ELSE str

trim(str) == trimEnd(trimStart(str))

\* the normalization without the trim
normalizeUntrimmed(query) == toLowerCase(query)

\* query.toLowerCase().trim()
normalize(query) == trim(toLowerCase(query))

startsWith(str, prefix) ==
  /\ Len(prefix) <= Len(str)
  /\ SubSeq(str, 1, Len(prefix)) = prefix

includes(str, part) ==
  \E i \in 1..(Len(str) + 1) :
     /\ i + Len(part) - 1 <= Len(str)
     /\ SubSeq(str, i, i + Len(part) - 1) = part

----------------------------------------------------------------------------
(* Interests *)

\* Matches with the two operands of startsWith and includes exchanged
MatchesInverted(suggestion, normalizedQuery) ==
  LET primaryText == toLowerCase(suggestion.name)
      secondaryText == IF suggestion.secondary_term \notin {undefined, <<>>}
                       THEN toLowerCase(suggestion.secondary_term)
                       ELSE <<>>
  IN \/ includes(normalizedQuery, primaryText)
     \/ includes(normalizedQuery, secondaryText)

\* lines 183-204, 234-255, 334-344: the predicate of the three result filters
Matches(suggestion, normalizedQuery) ==
  LET primaryText == toLowerCase(suggestion.name)
      secondaryText == IF suggestion.secondary_term \notin {undefined, <<>>}
                       THEN toLowerCase(suggestion.secondary_term)
                       ELSE <<>>
  IN \/ startsWith(primaryText, normalizedQuery)
     \/ startsWith(secondaryText, normalizedQuery)
     \/ includes(primaryText, normalizedQuery)
     \/ includes(secondaryText, normalizedQuery)

filterByQuery(results, normalizedQuery) ==
  SelectSeq(results, LAMBDA suggestion : Matches(suggestion, normalizedQuery))

\* item.id && suggestion.id && item.id === suggestion.id || item.name === suggestion.name
sameInterest(item, suggestion) ==
  \/ (item.id \notin {noId, ""} /\ suggestion.id \notin {noId, ""}
        /\ item.id = suggestion.id)
  \/ item.name = suggestion.name

notSelected(list, selected) ==
  SelectSeq(list, LAMBDA suggestion :
     ~ \E k \in 1..Len(selected) : sameInterest(selected[k], suggestion))

----------------------------------------------------------------------------
(* The state of the component *)

\* The state that a callback works on.  The nine hooks hold the current
\* values, which the setState calls of the callback change; render holds the
\* values of the last render, which the callback reads from its closure.
\* dirty: the objects and arrays among the dependencies of effects that are
\* not those of that render (strings are compared by value, see given).
\* fresh: the cache keys written since that render (their arrays are not
\* those of the cache of the render).  resultsKey: the key under which the
\* cache holds the very array that lastSearchResults is, noKey when it holds
\* it under none.
State ==
  [searchQuery |-> searchQuery, suggestions |-> suggestions,
   allFetchedSuggestions |-> allFetchedSuggestions, loading |-> loading,
   error |-> error, selectedInterests |-> selectedInterests,
   suggestionsCache |-> suggestionsCache,
   lastSearchResults |-> lastSearchResults, lastValidQuery |-> lastValidQuery,
   resultsKey |-> resultsKey, fresh |-> fresh, dirty |-> dirty,
   render |-> rendered]

\* the values that a render gives to the callbacks and to the screen
snapshot(s) ==
  [searchQuery |-> s.searchQuery, suggestions |-> s.suggestions,
   loading |-> s.loading, selectedInterests |-> s.selectedInterests,
   suggestionsCache |-> s.suggestionsCache,
   lastSearchResults |-> s.lastSearchResults,
   lastValidQuery |-> s.lastValidQuery, resultsKey |-> s.resultsKey]

\* the values that the next render gives
current ==
  [searchQuery |-> searchQuery, suggestions |-> suggestions,
   loading |-> loading, selectedInterests |-> selectedInterests,
   suggestionsCache |-> suggestionsCache,
   lastSearchResults |-> lastSearchResults,
   lastValidQuery |-> lastValidQuery, resultsKey |-> resultsKey]

\* the key of no entry
noKey == <<"no key">>

\* the state once React has rendered it
rerendered(s) ==
  [s EXCEPT !.render = snapshot(s), !.dirty = {}, !.fresh = {}]

\* prev => ({...prev, [key]: value})
cachePut(cache, key, value) == (key :> value) @@ cache

\* setSuggestionsCache(prev => ({...prev, [key]: value})) with a new array
setSuggestionsCache(s, key, value) ==
  [s EXCEPT !.suggestionsCache = cachePut(@, key, value),
            !.fresh = @ \cup {key},
            !.resultsKey = IF @ = key THEN noKey ELSE @]

\* The result of a handler: the state after its setState calls (s), the
\* effect dependencies that differ from those of the last render (t),
\* whether it resolved the query (ok) and by which branch (path).
Outcome(s, t, ok, path) == [s |-> s, t |-> t, ok |-> ok, path |-> path]

\* setLastSearchResults(results); setLastValidQuery(normalizedQuery); entry
\* tells that results is the array now in the cache under normalizedQuery
promote(s, results, normalizedQuery, entry) ==
  [s EXCEPT !.lastSearchResults = results, !.lastValidQuery = normalizedQuery,
            !.resultsKey = IF entry THEN normalizedQuery ELSE noKey]

\* the array that the cache of the render holds under normalizedQuery is the
\* lastSearchResults of the render
renderedResults(s, normalizedQuery) == s.render.resultsKey = normalizedQuery

\* lines 165-168: the dependencies that differ from those of the last render
\* (Object.is) once the entry of the cache of the render is made the last
\* search results: the array, unless the render had it as its last search
\* results, whatever was set since; the string, when it is another
promoted(s, normalizedQuery) ==
  (IF renderedResults(s, normalizedQuery) THEN {} ELSE {"lastSearchResults"})
    \cup (IF normalizedQuery # s.render.lastValidQuery
          THEN {"lastValidQuery"} ELSE {})

\* lines 165-168: the entry of the cache of the render is made the last
\* search results; they are again those of the render when it is their array
promoteEntry(s, normalizedQuery) ==
  [promote(s, s.render.suggestionsCache[normalizedQuery], normalizedQuery,
           normalizedQuery \notin s.fresh)
     EXCEPT !.dirty = IF renderedResults(s, normalizedQuery)
                      THEN @ \ {"lastSearchResults"} ELSE @]

\* lines 160-172: exact cache match
exactMatch(s, normalizedQuery) ==
  LET results == s.render.suggestionsCache[normalizedQuery]
      shown == [s EXCEPT !.suggestions = results]
  IN IF Len(results) > 0
     THEN Outcome(promoteEntry(shown, normalizedQuery),
                  promoted(s, normalizedQuery), TRUE, "exact")
     ELSE Outcome(shown, {}, TRUE, "exact")

\* 'constructor' and '__proto__': the keys that a cache without such an
\* entry answers with a property of Object.prototype
constructorKey == <<"c", "o", "n", "s", "t", "r", "u", "c", "t", "o", "r">>
protoKey == <<"_", "_", "p", "r", "o", "t", "o", "_", "_">>

\* Object.prototype as the value of suggestions: not a list
ObjectPrototype ==
  <<[id |-> "Object.prototype", name |-> <<>>, secondary_term |-> undefined]>>

\* list.length, undefined (no number) for Object.prototype
length(list) == IF list = ObjectPrototype THEN -1 ELSE Len(list)

\* lines 160-172 when suggestionsCache[normalizedQuery] is the function
\* Object: React takes it for an updater, which returns the previous value,
\* and Object.length is 1
inheritedConstructor(s, normalizedQuery) ==
  Outcome([s EXCEPT !.lastValidQuery = normalizedQuery],
          IF normalizedQuery # s.render.lastValidQuery
          THEN {"lastValidQuery"} ELSE {},
          TRUE, "inherited")

\* lines 160-172 when suggestionsCache[normalizedQuery] is Object.prototype,
\* which has no length
inheritedProto(s, normalizedQuery) ==
  Outcome([s EXCEPT !.suggestions = ObjectPrototype], {}, TRUE, "inherited")

\* lines 207-221, 259-272, 347-357: a non-empty filtered list is shown,
\* cached under the query and made the last search results
useFiltered(s, filteredResults, normalizedQuery, path) ==
  Outcome(
    [promote(setSuggestionsCache(s, normalizedQuery, filteredResults),
             filteredResults, normalizedQuery, TRUE)
       EXCEPT !.suggestions = filteredResults],
    {"suggestionsCache", "lastSearchResults"}
      \cup (IF normalizedQuery # s.render.lastValidQuery
            THEN {"lastValidQuery"} ELSE {}),
    TRUE, path)

\* lines 227-274: the cached queries, longest first, that the query starts
\* with; the first one whose filtered results are non-empty is used.  The
\* prefixes of the query are visited by decreasing length n, which is the
\* order of the sorted keys restricted to those the query starts with.
RECURSIVE parentLoop(_, _, _)
parentLoop(s, normalizedQuery, n) ==
  IF n < 0 THEN Outcome(s, {}, FALSE, "miss")
  ELSE LET cachedQuery == SubSeq(normalizedQuery, 1, n)
       IN IF cachedQuery \in DOMAIN s.render.suggestionsCache
             /\ Len(filterByQuery(s.render.suggestionsCache[cachedQuery],
                                  normalizedQuery)) > 0
          THEN useFiltered(s,
                 filterByQuery(s.render.suggestionsCache[cachedQuery],
                               normalizedQuery),
                 normalizedQuery, "ancestor")
          ELSE parentLoop(s, normalizedQuery, n - 1)

\* lines 150-280
filterSuggestionsLocally(s, query) ==
  LET normalizedQuery == normalize(query)
      lastQuery == normalize(s.render.lastValidQuery)
      filteredResults ==
        filterByQuery(s.render.lastSearchResults, normalizedQuery)
  IN IF trim(query) = <<>>
     THEN Outcome([s EXCEPT !.suggestions = s.render.lastSearchResults], {},
                  TRUE, "empty")
     ELSE IF normalizedQuery \in DOMAIN s.render.suggestionsCache
     THEN exactMatch(s, normalizedQuery)
     ELSE IF normalizedQuery = constructorKey
     THEN inheritedConstructor(s, normalizedQuery)
     ELSE IF normalizedQuery = protoKey
     THEN inheritedProto(s, normalizedQuery)
     ELSE IF /\ lastQuery # <<>>
             /\ startsWith(normalizedQuery, lastQuery)
             /\ Len(s.render.lastSearchResults) > 0
             /\ Len(filteredResults) > 0
     THEN useFiltered(s, filteredResults, normalizedQuery, "fallback")
     ELSE parentLoop(s, normalizedQuery, Len(normalizedQuery))

\* recentlyEmpty with < for <=
recentlyEmptyStrict(s, normalizedQuery) ==
  \E cachedQuery \in DOMAIN s.render.suggestionsCache :
     /\ startsWith(normalizedQuery, cachedQuery)
     /\ Len(s.render.suggestionsCache[cachedQuery]) = 0
     /\ Len(normalizedQuery) < Len(cachedQuery) + 3

\* lines 307-312: some cached query the query starts with has no results and
\* is at most three characters shorter
recentlyEmpty(s, normalizedQuery) ==
  \E cachedQuery \in DOMAIN s.render.suggestionsCache :
     /\ startsWith(normalizedQuery, cachedQuery)
     /\ Len(s.render.suggestionsCache[cachedQuery]) = 0
     /\ Len(normalizedQuery) <= Len(cachedQuery) + 3

\* lines 302-313
suppressed(s, normalizedQuery) ==
  LET lastQuery == normalize(s.render.lastValidQuery)
  IN /\ lastQuery # <<>>
     /\ startsWith(normalizedQuery, lastQuery)
     /\ Len(s.render.lastSearchResults) = 0
     /\ recentlyEmpty(s, normalizedQuery)

\* lines 323-325
possibleParentQueries(s, normalizedQuery) ==
  {cachedQuery \in DOMAIN s.render.suggestionsCache :
      startsWith(normalizedQuery, cachedQuery)}

\* closestParentResults without the filter by the query
closestParentResultsUnfiltered(s, normalizedQuery) ==
  LET parents == possibleParentQueries(s, normalizedQuery)
  IN IF parents = {} THEN <<>>
     ELSE s.render.suggestionsCache[CHOOSE p \in parents :
                                \A o \in parents : Len(o) <= Len(p)]

\* lines 327-345: possibleParentQueries[0] after the sort by decreasing
\* length, filtered by the query; empty when there is no parent
closestParentResults(s, normalizedQuery) ==
  LET parents == possibleParentQueries(s, normalizedQuery)
  IN IF parents = {} THEN <<>>
     ELSE LET closestParentQuery ==
                CHOOSE p \in parents : \A o \in parents : Len(o) <= Len(p)
          IN filterByQuery(s.render.suggestionsCache[closestParentQuery],
                           normalizedQuery)

\* lines 282-362: fetchSuggestions up to the await; path "request" says that
\* the network request is made
fetchSuggestions(s, query) ==
  LET normalizedQuery == normalize(query)
      local == filterSuggestionsLocally(s, query)
      parentResults == closestParentResults(s, normalizedQuery)
      byParent == useFiltered(s, parentResults, normalizedQuery, "parent")
  IN IF trim(query) = <<>>
     THEN Outcome([s EXCEPT !.suggestions = s.render.lastSearchResults], {},
                  TRUE, "empty")
     ELSE IF local.ok
     THEN Outcome([local.s EXCEPT !.loading = FALSE], local.t, TRUE, local.path)
     ELSE IF suppressed(s, normalizedQuery)
     THEN Outcome([s EXCEPT !.suggestions = <<>>, !.loading = FALSE], {}, TRUE,
                  "suppressed")
     ELSE IF Len(parentResults) > 0
     THEN Outcome([byParent.s EXCEPT !.loading = FALSE], byParent.t, TRUE,
                  "parent")
     ELSE Outcome([s EXCEPT !.loading = TRUE, !.error = null], {}, FALSE,
                  "request")

\* lines 588-593: the timer callback
timerCallback(s, query) ==
  LET local == filterSuggestionsLocally(s, query)
  IN IF local.ok THEN local ELSE fetchSuggestions(s, query)

----------------------------------------------------------------------------
(* Responses of the autocomplete endpoint *)

\* What the awaited fetch gives: a rejected promise or a response that is
\* not ok (status "error"), a body without an autocomplete list (status
\* "badformat"), or a body with the list `autocomplete` (status "ok").
networkError == [status |-> "error", autocomplete |-> <<>>]
badFormat == [status |-> "badformat", autocomplete |-> <<>>]
okResponse(autocomplete) == [status |-> "ok", autocomplete |-> autocomplete]

failedMessage == "Failed to fetch suggestions. Please try again."
invalidMessage == "Invalid response format from server"

\* 'Unnamed Interest'
UnnamedInterest ==
  <<"U", "n", "n", "a", "m", "e", "d", " ", "I", "n", "t", "e", "r", "e", "s",
    "t">>

\* lines 399-406
formatSuggestion(suggestion) ==
  [suggestion EXCEPT
     !.name = IF suggestion.name \in {undefined, <<>>}
              THEN UnnamedInterest ELSE suggestion.name]

formattedSuggestions(autocomplete) ==
  [i \in 1..Len(autocomplete) |-> formatSuggestion(autocomplete[i])]

\* lines 424-437
mergeFetched(prev, filteredSuggestions) ==
  prev \o SelectSeq(filteredSuggestions, LAMBDA newItem :
            ~ \E k \in 1..Len(prev) : sameInterest(prev[k], newItem))

\* fetchCompleted with an empty cache entry written for a failed request
fetchCompletedCachesFailure(s, query, selected, response) ==
  Outcome([setSuggestionsCache(s, normalize(query), <<>>) EXCEPT
             !.error = failedMessage, !.suggestions = <<>>, !.loading = FALSE],
          {"suggestionsCache"}, FALSE, "error")

\* fetchCompleted without the finally block: a failure leaves loading as it is
fetchCompletedWithoutFinally(s, query, selected, response) ==
  LET normalizedQuery == normalize(query)
      filteredSuggestions ==
        notSelected(formattedSuggestions(response.autocomplete), selected)
      stored == [setSuggestionsCache(s, normalizedQuery, filteredSuggestions)
                   EXCEPT
                   !.suggestions = filteredSuggestions,
                   !.allFetchedSuggestions =
                      mergeFetched(s.allFetchedSuggestions, filteredSuggestions),
                   !.loading = FALSE]
  IN IF response.status = "error"
     THEN Outcome([s EXCEPT !.error = failedMessage, !.suggestions = <<>>],
                  {}, FALSE, "error")
     ELSE IF response.status = "badformat"
     THEN Outcome([s EXCEPT !.error = invalidMessage, !.suggestions = <<>>],
                  {}, FALSE, "error")
     ELSE IF Len(filteredSuggestions) > 0
     THEN Outcome(promote(stored, filteredSuggestions, normalizedQuery,
                          TRUE),
                  {"suggestionsCache", "lastSearchResults"}
                    \cup (IF normalizedQuery # s.render.lastValidQuery
                          THEN {"lastValidQuery"} ELSE {}),
                  TRUE, "remote")
     ELSE Outcome(stored, {"suggestionsCache"}, TRUE, "remote")

\* lines 383-452: the continuation of fetchSuggestions after the await, for
\* the request made for `query` when the selection was `selected`
fetchCompleted(s, query, selected, response) ==
  LET normalizedQuery == normalize(query)
      filteredSuggestions ==
        notSelected(formattedSuggestions(response.autocomplete), selected)
      stored == [setSuggestionsCache(s, normalizedQuery, filteredSuggestions)
                   EXCEPT
                   !.suggestions = filteredSuggestions,
                   !.allFetchedSuggestions =
                      mergeFetched(s.allFetchedSuggestions, filteredSuggestions),
                   !.loading = FALSE]
  IN IF response.status = "error"
     THEN Outcome([s EXCEPT !.error = failedMessage, !.suggestions = <<>>,
                            !.loading = FALSE], {}, FALSE, "error")
     ELSE IF response.status = "badformat"
     THEN Outcome([s EXCEPT !.error = invalidMessage, !.suggestions = <<>>,
                            !.loading = FALSE], {}, FALSE, "error")
     ELSE IF Len(filteredSuggestions) > 0
     THEN Outcome(promote(stored, filteredSuggestions, normalizedQuery,
                          TRUE),
                  {"suggestionsCache", "lastSearchResults"}
                    \cup (IF normalizedQuery # s.render.lastValidQuery
                          THEN {"lastValidQuery"} ELSE {}),
                  TRUE, "remote")
     ELSE Outcome(stored, {"suggestionsCache"}, TRUE, "remote")

----------------------------------------------------------------------------
(* Preload *)

\* line 467
commonFirstLetters ==
  << <<"a">>, <<"b">>, <<"c">>, <<"d">>, <<"e">>, <<"g">>, <<"m">>, <<"s">>,
     <<"t">> >>

\* lines 470-471: the position, from `from` on, of the next letter that the
\* loop requests: one without an entry in the cache the loop was created
\* with; 0 when the loop is over
RECURSIVE nextLetter(_, _)
nextLetter(cache, from) ==
  IF from > Len(commonFirstLetters) THEN 0
  ELSE IF commonFirstLetters[from] \notin DOMAIN cache THEN from
  ELSE nextLetter(cache, from + 1)

\* lines 465-549: the preload effect starts a loop that holds the cache, the
\* selection and the last search results of its render, and awaits the
\* response for the letter at position i
startPreload(loops, s) ==
  IF nextLetter(s.suggestionsCache, 1) = 0
  THEN loops
  ELSE loops (+) SetToBag({[i |-> nextLetter(s.suggestionsCache, 1),
                            suggestionsCache |-> s.suggestionsCache,
                            selectedInterests |-> s.selectedInterests,
                            lastSearchResults |-> s.lastSearchResults]})

\* preloadCompleted with the failure shown to the user as that of a search
preloadCompletedShowsFailure(s, loop, response) ==
  IF response.status # "ok"
  THEN Outcome([s EXCEPT !.error = failedMessage, !.suggestions = <<>>],
               {}, FALSE, "preload failed")
  ELSE Outcome(s, {}, TRUE, "preload")

\* lines 483-538: what a loop does with the response for its letter
preloadCompleted(s, loop, response) ==
  LET letter == commonFirstLetters[loop.i]
      filteredSuggestions ==
        notSelected(formattedSuggestions(response.autocomplete),
                    loop.selectedInterests)
      stored == [setSuggestionsCache(s, letter, filteredSuggestions) EXCEPT
                   !.allFetchedSuggestions =
                      mergeFetched(s.allFetchedSuggestions, filteredSuggestions)]
  IN IF response.status # "ok"
     THEN Outcome(s, {}, FALSE, "preload failed")
     ELSE IF /\ letter = commonFirstLetters[1]
             /\ Len(filteredSuggestions) > 0
             /\ Len(loop.lastSearchResults) = 0
     THEN Outcome(promote(stored, filteredSuggestions, letter, TRUE),
                  {"suggestionsCache", "lastSearchResults"}
                    \cup (IF letter # s.render.lastValidQuery
                          THEN {"lastValidQuery"} ELSE {}),
                  TRUE, "preload seeded")
     ELSE Outcome(stored, {"suggestionsCache"}, TRUE, "preload")

\* lines 470-544: the loops after `loop` has handled its response: it
\* awaits the response for its next letter, or is over
advance(loops, loop) ==
  LET n == nextLetter(loop.suggestionsCache, loop.i + 1)
  IN IF n = 0
     THEN loops (-) SetToBag({loop})
     ELSE (loops (-) SetToBag({loop})) (+) SetToBag({[loop EXCEPT !.i = n]})

----------------------------------------------------------------------------
(* Effects *)

preloadDeps == {"suggestionsCache", "selectedInterests", "lastSearchResults"}

\* lines 600-606 with the dependencies of fetchSuggestions (454-460) and of
\* filterSuggestionsLocally (279)
searchDeps == {"searchQuery", "selectedInterests", "suggestionsCache",
               "lastSearchResults", "lastValidQuery"}

\* the dependencies that are objects and arrays, compared by identity
identityDeps == {"suggestionsCache", "selectedInterests", "lastSearchResults"}

\* the dependencies that a render finds with a new value (Object.is), when
\* the handler that ran last gave a new value to those of t: the objects and
\* arrays that were set since the last render, and the strings that differ
\* from those of the last render
given(s, t) ==
  ((s.dirty \cup t) \cap identityDeps)
    \cup (IF s.searchQuery # s.render.searchQuery
          THEN {"searchQuery"} ELSE {})
    \cup (IF s.lastValidQuery # s.render.lastValidQuery
          THEN {"lastValidQuery"} ELSE {})

\* searchTimeoutRef.current when no timer is armed
noTimer == 0

\* lines 581-586
delay(s) ==
  LET normalizedQuery == normalize(s.searchQuery)
      lastQuery == normalize(s.lastValidQuery)
  IN IF Len(s.searchQuery) <= 1 THEN 100
     ELSE IF lastQuery # <<>> /\ startsWith(normalizedQuery, lastQuery) THEN 800
     ELSE 300

\* lines 553-593: the body of the search effect.  timer is the delay of the
\* timer it leaves armed, noTimer when it returns without arming one.
searchEffect(s) ==
  LET normalizedQuery == normalize(s.searchQuery)
      lastQuery == normalize(s.lastValidQuery)
      local == filterSuggestionsLocally(s, s.searchQuery)
  IN IF /\ lastQuery # <<>>
        /\ startsWith(normalizedQuery, lastQuery)
        /\ Len(s.lastSearchResults) > 0
     THEN [s |-> local.s, t |-> local.t,
           path |-> local.path,
           timer |-> IF local.ok /\ Len(normalizedQuery) > Len(lastQuery) + 2
                     THEN noTimer ELSE delay(s)]
     ELSE [s |-> s, t |-> {}, path |-> "none", timer |-> delay(s)]

\* One render and the renders it leads to: with the state s, the
\* dependencies t that were given a new value, the timer and the preload
\* loops, React renders s, and the preload effect (unless the initial fetch
\* is done, line 465) and the search effect run when a dependency of theirs
\* changed; what the search effect sets is rendered in turn.
RECURSIVE Render(_, _, _, _, _)
Render(s, t, timer, loops, done) ==
  LET s1 == rerendered(s)
      loops1 == IF t \cap preloadDeps # {} /\ ~ done
                THEN startPreload(loops, s1) ELSE loops
      e == searchEffect(s1)
  IN IF t \cap searchDeps = {}
     THEN [s |-> s1, timer |-> timer, loops |-> loops1]
     ELSE Render(e.s, e.t, e.timer, loops1, done)

\* clearTimeout without effect
clearTimeoutNoOp(pending, timer) == pending

\* lines 554-556: clearTimeout(searchTimeoutRef.current); pending holds the
\* queries of the callbacks that are armed, in the order of their arming,
\* and the timer of the ref is the last one armed
clearTimeout(pending, timer) ==
  IF timer # noTimer /\ pending # <<>>
  THEN SubSeq(pending, 1, Len(pending) - 1) ELSE pending

\* line 588: setTimeout with a callback for the query
setTimeout(pending, query, timer) ==
  IF timer # noTimer THEN Append(pending, query) ELSE pending

\* the armed callbacks after the commits r that follow a change of the
\* dependencies t: the search effect, when it ran, has cleared the timer of
\* the ref and armed the timer of r
pendingAfter(pending, timer, t, r) ==
  IF t \cap searchDeps = {} THEN pending
  ELSE setTimeout(clearTimeout(pending, timer), r.s.searchQuery, r.timer)

----------------------------------------------------------------------------
(* Selection handlers *)

\* handleSelectSuggestion that also drops the cache, as an invalidation of
\* the entries filtered by the old selection would
handleSelectSuggestionInvalidates(s, suggestion) ==
  Outcome([s EXCEPT !.selectedInterests = Append(@, suggestion),
                    !.searchQuery = <<>>,
                    !.suggestionsCache = <<>>,
                    !.resultsKey = noKey],
          {"selectedInterests", "suggestionsCache"}
            \cup (IF s.searchQuery # <<>> THEN {"searchQuery"} ELSE {}),
          FALSE, "none")

\* lines 608-613
handleSelectSuggestion(s, suggestion) ==
  Outcome([s EXCEPT !.selectedInterests = Append(@, suggestion),
                    !.searchQuery = <<>>],
          {"selectedInterests"}
            \cup (IF s.searchQuery # <<>> THEN {"searchQuery"} ELSE {}),
          FALSE, "none")

\* lines 615-623
handleRemoveInterest(s, interest) ==
  Outcome([s EXCEPT !.selectedInterests =
             SelectSeq(@, LAMBDA item :
                \/ (item.id \notin {noId, ""} /\ interest.id \notin {noId, ""}
                      /\ item.id # interest.id)
                \/ item.name # interest.name)],
          {"selectedInterests"}, FALSE, "none")

separators == {":", "|", "-"}
\* the characters that . does not match
lineTerminators == {"\n", "\r"}

\* the first position from i on whose character is in (not in) set, 0 if none
RECURSIVE firstIn(_, _, _)
firstIn(str, i, set) ==
  IF i > Len(str) THEN 0
  ELSE IF str[i] \in set THEN i ELSE firstIn(str, i + 1, set)

RECURSIVE firstNotIn(_, _, _)
firstNotIn(str, i, set) ==
  IF i > Len(str) THEN 0
  ELSE IF str[i] \notin set THEN i ELSE firstNotIn(str, i + 1, set)

\* \s*(.+) from position i: the start of the second group, after as much
\* white space as leaves a character for it; 0 when there is none
RECURSIVE secondStart(_, _, _)
secondStart(str, i, n) ==
  LET allSpace == \A k \in i..(n - 1) : str[k] \in Whitespace
  IN IF n < i THEN 0
     ELSE IF n <= Len(str) /\ allSpace /\ str[n] \notin lineTerminators THEN n
     ELSE secondStart(str, i, n - 1)

\* line 630: searchQuery.match(/([^:|-]+)[:|-]\s*(.+)/), the two groups of
\* the leftmost match, or <<>> for no match
RECURSIVE separatorMatchFrom(_, _)
separatorMatchFrom(str, from) ==
  LET i == firstNotIn(str, from, separators)
      j == IF i = 0 THEN 0 ELSE firstIn(str, i, separators)
      b == IF j = 0 THEN 0 ELSE secondStart(str, j + 1, Len(str))
      e == firstIn(str, b, lineTerminators)
  IN IF j = 0 THEN <<>>
     ELSE IF b = 0 THEN separatorMatchFrom(str, j + 1)
     ELSE << SubSeq(str, i, j - 1),
             SubSeq(str, b, IF e = 0 THEN Len(str) ELSE e - 1) >>

separatorMatch(str) == separatorMatchFrom(str, 1)

\* newInterest without the trim of the two groups
newInterestUntrimmed(query) ==
  LET m == separatorMatch(query)
  IN [id |-> noId,
      name |-> IF m # <<>> THEN m[1] ELSE trim(query),
      secondary_term |-> IF m # <<>> THEN m[2] ELSE undefined]

\* lines 630-647
newInterest(query) ==
  LET m == separatorMatch(query)
  IN [id |-> noId,
      name |-> IF m # <<>> THEN trim(m[1]) ELSE trim(query),
      secondary_term |-> IF m # <<>> THEN trim(m[2]) ELSE undefined]

\* lines 625-653
handleCreateCustomInterest(s) ==
  IF trim(s.searchQuery) = <<>> THEN Outcome(s, {}, FALSE, "none")
  ELSE Outcome([s EXCEPT
                  !.selectedInterests = Append(@, newInterest(s.searchQuery)),
                  !.searchQuery = <<>>],
               {"selectedInterests", "searchQuery"}, FALSE, "none")

----------------------------------------------------------------------------
(* Inputs: what the user types and what the endpoint answers *)

Music == [id |-> "1", name |-> <<"M", "u", "s", "i", "c">>,
          secondary_term |-> undefined]
Movies == [id |-> "2", name |-> <<"M", "o", "v", "i", "e", "s">>,
           secondary_term |-> undefined]

RawQueries ==
  { <<>>, <<"m">>, <<"m", "u">>, <<"M", " ">> }

Responses ==
  { networkError, badFormat, okResponse(<<>>), okResponse(<<Music, Movies>>) }

\* the letters whose preload request gets a response; the requests for the
\* other letters stay pending
AnsweredLetters == { <<"a">> }

----------------------------------------------------------------------------
(* The component *)

\* the state s becomes the state of the component
Becomes(s) ==
  /\ searchQuery' = s.searchQuery
  /\ suggestions' = s.suggestions
  /\ allFetchedSuggestions' = s.allFetchedSuggestions
  /\ loading' = s.loading
  /\ error' = s.error
  /\ selectedInterests' = s.selectedInterests
  /\ suggestionsCache' = s.suggestionsCache
  /\ lastSearchResults' = s.lastSearchResults
  /\ lastValidQuery' = s.lastValidQuery
  /\ resultsKey' = s.resultsKey
  /\ fresh' = s.fresh

\* the renders r have been made
Commit(r) ==
  /\ Becomes(r.s)
  /\ rendered' = r.s.render
  /\ dirty' = {}
  /\ searchTimeout' = r.timer
  /\ preloads' = r.loops

\* the setState calls of a callback that runs outside an event of the user
\* are queued: React renders later
Queue(o) ==
  /\ Becomes(o.s)
  /\ dirty' = o.s.dirty \cup (o.t \cap identityDeps)
  /\ rendered' = rendered

\* lines 108-127
initialState ==
  [searchQuery |-> <<>>, suggestions |-> <<>>, allFetchedSuggestions |-> <<>>,
   loading |-> FALSE, error |-> null, selectedInterests |-> <<>>,
   suggestionsCache |-> <<>>, lastSearchResults |-> <<>>,
   lastValidQuery |-> <<>>, resultsKey |-> noKey, fresh |-> {}, dirty |-> {},
   render |-> <<>>]

\* the first render: every effect runs
mounted ==
  Render(initialState, preloadDeps \cup searchDeps, noTimer, EmptyBag, FALSE)

\* the component after the mount
Mount ==
  /\ searchQuery = mounted.s.searchQuery
  /\ suggestions = mounted.s.suggestions
  /\ allFetchedSuggestions = mounted.s.allFetchedSuggestions
  /\ loading = mounted.s.loading
  /\ error = mounted.s.error
  /\ selectedInterests = mounted.s.selectedInterests
  /\ suggestionsCache = mounted.s.suggestionsCache
  /\ lastSearchResults = mounted.s.lastSearchResults
  /\ lastValidQuery = mounted.s.lastValidQuery
  /\ resultsKey = mounted.s.resultsKey
  /\ fresh = mounted.s.fresh
  /\ dirty = mounted.s.dirty
  /\ rendered = mounted.s.render
  /\ searchTimeout = mounted.timer
  /\ timers = setTimeout(<<>>, mounted.s.searchQuery, mounted.timer)
  /\ preloads = mounted.loops
  /\ initialFetchDone = FALSE
  /\ inflight = EmptyBag
  /\ requested = FALSE

Init ==
  /\ Mount
  /\ userActions = MaxUserActions

\* one more thing the user does
UserActs ==
  /\ userActions > 0
  /\ userActions' = userActions - 1

\* an event of the user: the setState calls of its handler and those queued
\* before it are rendered at the end of the event
Event(o) ==
  \E r \in {Render(o.s, given(o.s, o.t), searchTimeout, preloads,
                   initialFetchDone)} :
     /\ UserActs
     /\ Commit(r)
     /\ timers' = pendingAfter(timers, searchTimeout, given(o.s, o.t), r)
     /\ UNCHANGED <<initialFetchDone, inflight>>

\* line 819: onChangeText={setSearchQuery}
ChangeText(raw) ==
  /\ raw # searchQuery
  /\ Event(Outcome([State EXCEPT !.searchQuery = raw], {"searchQuery"},
                   FALSE, "none"))
  /\ requested' = FALSE

\* the request that fetchSuggestions makes for the query, with the selection
\* its continuation will read (lines 365-381 and 410)
Request(query, selected) == [query |-> query, selectedInterests |-> selected]

\* lines 588-593: the debounce timer fires; its callback is that of the last
\* render
TimerFiresAt(i) ==
  LET query == timers[i]
      others == SubSeq(timers, 1, i - 1) \o SubSeq(timers, i + 1, Len(timers))
  IN \E o \in {timerCallback(State, query)} :
       /\ Queue(o)
       /\ timers' = others
       /\ searchTimeout' = IF i = Len(timers) THEN noTimer ELSE searchTimeout
       /\ inflight' = IF o.path = "request"
                      THEN inflight
                             (+) SetToBag({Request(query,
                                                   rendered.selectedInterests)})
                      ELSE inflight
       /\ requested' = (requested \/ o.path = "request")
       /\ UNCHANGED <<initialFetchDone, userActions, preloads>>

\* one of the armed callbacks runs
TimerFires == \E i \in 1..Len(timers) : TimerFiresAt(i)

\* lines 383-452: the response to the pending request f arrives
FetchCompletes(f, response) ==
  \E o \in {fetchCompleted(State, f.query, f.selectedInterests, response)} :
     /\ Queue(o)
     /\ initialFetchDone' = (initialFetchDone \/ response.status = "ok")
     /\ inflight' = inflight (-) SetToBag({f})
     /\ UNCHANGED <<requested, userActions, timers, searchTimeout, preloads>>

\* lines 473-543: the response to the request of a preload loop arrives, and
\* the loop requests its next letter
PreloadAnswered(loop, response) ==
  \E o \in {preloadCompleted(State, loop, response)} :
     /\ Queue(o)
     /\ preloads' = advance(preloads, loop)
     /\ UNCHANGED <<initialFetchDone, inflight, requested, userActions, timers,
                    searchTimeout>>

\* the response is for one of the letters that get one
PreloadCompletes(loop, response) ==
  /\ commonFirstLetters[loop.i] \in AnsweredLetters
  /\ PreloadAnswered(loop, response)

\* a callback has set something that React has not rendered
RenderPending == dirty # {} \/ current # rendered

\* React renders what the callbacks have set since the last render, and the
\* effects run (lines 464-550, 553-606)
Rerender ==
  /\ RenderPending
  /\ \E r \in {Render(State, given(State, {}), searchTimeout, preloads,
                      initialFetchDone)} :
        /\ Commit(r)
        /\ timers' = pendingAfter(timers, searchTimeout, given(State, {}), r)
  /\ UNCHANGED <<initialFetchDone, inflight, requested, userActions>>

\* lines 706-708: the k-th suggestion of the list on the screen is pressed;
\* the list is shown when not loading (line 853)
SelectSuggestion(k) ==
  /\ ~ rendered.loading
  /\ k \in 1..length(rendered.suggestions)
  /\ Event(handleSelectSuggestion(State, rendered.suggestions[k]))
  /\ UNCHANGED requested

\* line 793: the remove button of the k-th selected interest is pressed
RemoveInterest(k) ==
  /\ Event(handleRemoveInterest(State, selectedInterests[k]))
  /\ UNCHANGED requested

\* lines 625-653 and 883: the create button is pressed
PressCreate ==
  /\ Event(handleCreateCustomInterest(State))
  /\ UNCHANGED requested

\* lines 878-887: the create button is shown when not loading, without
\* suggestions and with a non-blank query
CreateCustomInterest ==
  /\ ~ rendered.loading
  /\ length(rendered.suggestions) = 0
  /\ trim(searchQuery) # <<>>
  /\ PressCreate

Next ==
  \/ \E raw \in RawQueries : ChangeText(raw)
  \/ TimerFires
  \/ \E f \in BagToSet(inflight), response \in Responses :
        FetchCompletes(f, response)
  \/ \E loop \in BagToSet(preloads), response \in Responses :
        PreloadCompletes(loop, response)
  \/ Rerender
  \/ \E k \in 1..length(rendered.suggestions) : SelectSuggestion(k)
  \/ \E k \in 1..Len(selectedInterests) : RemoveInterest(k)
  \/ CreateCustomInterest

Spec == Init /\ [][Next]_vars

\* lines 469-545: the endpoint answers every request of a preload loop: the
\* one for the first letter with a failure or with a list, the others with a
\* failure
QuietReplies(letter) ==
  IF letter = commonFirstLetters[1]
  THEN { networkError, okResponse(<<Music, Movies>>) }
  ELSE { networkError }

\* lines 473-543: the request a preload loop awaits is answered
PreloadReplies ==
  \E loop \in BagToSet(preloads) :
     \E response \in QuietReplies(commonFirstLetters[loop.i]) :
        PreloadAnswered(loop, response)

\* lines 383-452: a pending request of fetchSuggestions is answered
FetchReplies ==
  \E f \in BagToSet(inflight), response \in Responses :
     FetchCompletes(f, response)

\* the component with a user who types "m" and presses what is on the
\* screen, and with an answer to every request, those of the preload loops
\* for all nine letters included
NextQuiet ==
  \/ ChangeText(<<"m">>)
  \/ TimerFires
  \/ FetchReplies
  \/ PreloadReplies
  \/ Rerender
  \/ \E k \in 1..length(rendered.suggestions) : SelectSuggestion(k)
  \/ \E k \in 1..Len(selectedInterests) : RemoveInterest(k)
  \/ CreateCustomInterest

SpecQuietSteps == Init /\ [][NextQuiet]_vars

\* lines 588-593, 365-381, 473-483: an armed timer fires after its delay,
\* a request that was made gets its response, and React renders what was
\* set.  The last conjunct is WF_vars(Rerender) with the enabling condition
\* of Rerender written out: a step of Rerender is possible, and changes
\* dirty or rendered, exactly when a render is pending.
Fairness ==
  /\ WF_vars(TimerFires)
  /\ WF_vars(FetchReplies)
  /\ WF_vars(PreloadReplies)
  /\ ([]<>(~ RenderPending) \/ []<><<Rerender>>_vars)

\* the component with timers that fire and requests that all complete
SpecQuiet == SpecQuietSteps /\ Fairness

----------------------------------------------------------------------------
(* The decision of the timer callback as a function of the render it reads: *)
(* the callback is applied to every combination of a query, a cache over    *)
(* the prefixes of "trex", the last valid query and the last results in     *)
(* which the search effect of the render sets nothing and arms the timer.   *)

Trex == [id |-> "7", name |-> <<"T", "r", "e", "x">>,
         secondary_term |-> undefined]

DecideQueries ==
  { <<"t", "r", "e", "x">>, <<"T", "r", "e", "x", "x", " ">>,
    <<"t", "r", "e", "x", "x", "x">>, <<"t", "r", "e", "x", "x", "x", "x">> }

DecideKeys == { <<"t">>, <<"t", "r">>, <<"t", "r", "e">>, <<"t", "r", "e", "x">> }

DecideCaches ==
  UNION {[keys -> {<<>>, <<Trex>>}] : keys \in SUBSET DecideKeys}

InitDecide ==
  /\ searchQuery \in DecideQueries
  /\ suggestionsCache \in DecideCaches
  /\ lastValidQuery \in {<<>>, <<"t">>, <<"t", "r">>}
  /\ lastSearchResults \in {<<>>, <<Trex>>}
  /\ suggestions = <<Trex>>
  /\ allFetchedSuggestions = <<>>
  /\ loading = FALSE
  /\ error = null
  /\ selectedInterests = <<>>
  /\ resultsKey \in {noKey}
                     \cup {key \in DOMAIN suggestionsCache :
                              /\ key = lastValidQuery
                              /\ suggestionsCache[key] = lastSearchResults}
  /\ fresh = {}
  /\ dirty = {}
  /\ rendered = current
  /\ searchEffect(State).s = State
  /\ searchEffect(State).t = {}
  /\ searchEffect(State).timer # noTimer
  /\ searchTimeout = delay(State)
  /\ timers = <<searchQuery>>
  /\ preloads = EmptyBag
  /\ initialFetchDone = TRUE
  /\ inflight = EmptyBag
  /\ requested = FALSE
  /\ userActions = MaxUserActions

NextDecide == TimerFires

SpecDecide == InitDecide /\ [][NextDecide]_vars

----------------------------------------------------------------------------
(* handleCreateCustomInterest as a function of the text: the handler is     *)
(* applied to every text of at most MaxInput characters over a letter, the  *)
(* separators and the space, and to the two texts of the specification.     *)

MaxInput == 3

InputChars == {"a", ":", "|", "-", " "}

RECURSIVE Texts(_)
Texts(n) ==
  IF n = 0 THEN {<<>>}
  ELSE Texts(n - 1)
         \cup {Append(t, c) : t \in {u \in Texts(n - 1) : Len(u) = n - 1},
                              c \in InputChars}

MusicRock == <<"M", "u", "s", "i", "c", ":", " ", "R", "o", "c", "k">>
Hiking == <<"H", "i", "k", "i", "n", "g">>

CreateInputs == Texts(MaxInput) \cup {MusicRock, Hiking}

InitCreate ==
  /\ searchQuery \in CreateInputs
  /\ selectedInterests \in {<<>>, <<Music>>}
  /\ suggestions = <<>>
  /\ suggestionsCache = <<>>
  /\ lastSearchResults = <<>>
  /\ lastValidQuery = <<>>
  /\ allFetchedSuggestions = <<>>
  /\ loading = FALSE
  /\ error = null
  /\ resultsKey = noKey
  /\ fresh = {}
  /\ dirty = {}
  /\ rendered = current
  /\ searchTimeout = delay(State)
  /\ timers = <<searchQuery>>
  /\ preloads = EmptyBag
  /\ initialFetchDone = TRUE
  /\ inflight = EmptyBag
  /\ requested = FALSE
  /\ userActions = MaxUserActions

NextCreate == PressCreate

SpecCreate == InitCreate /\ [][NextCreate]_vars

----------------------------------------------------------------------------
(* Preload alone: after the mount the user does nothing, and the requests   *)
(* for the first three letters of the list get a response.                  *)

PreloadAnsweredLetters == { <<"a">>, <<"b">>, <<"c">> }

InitPreload == Init

NextPreload ==
  \/ \E loop \in BagToSet(preloads), response \in Responses :
       /\ commonFirstLetters[loop.i] \in PreloadAnsweredLetters
       /\ PreloadAnswered(loop, response)
  \/ Rerender

SpecPreload == InitPreload /\ [][NextPreload]_vars

----------------------------------------------------------------------------
(* The component with interests that share a name: after the mount the     *)
(* preload request for "a" is answered, the user presses suggestions, types *)
(* "m" and removes interests, and the request for "m" is answered with      *)
(* lists that hold the same interest twice or two interests of one name.    *)

MusicBand == [id |-> "3", name |-> <<"M", "u", "s", "i", "c">>,
              secondary_term |-> <<"B", "a", "n", "d">>]

FilterResponses ==
  { okResponse(<<Music, Movies>>), okResponse(<<MusicBand, Movies>>),
    okResponse(<<Music, MusicBand>>), okResponse(<<Movies>>),
    okResponse(<<Music, Music>>) }

InitFilter == Init

NextFilter ==
  \/ ChangeText(<<"m">>)
  \/ TimerFires
  \/ \E f \in BagToSet(inflight), response \in FilterResponses :
        FetchCompletes(f, response)
  \/ \E loop \in BagToSet(preloads) :
        PreloadCompletes(loop, okResponse(<<Music, Movies>>))
  \/ Rerender
  \/ \E k \in 1..length(rendered.suggestions) : SelectSuggestion(k)
  \/ \E k \in 1..Len(selectedInterests) : RemoveInterest(k)

SpecFilter == InitFilter /\ [][NextFilter]_vars

----------------------------------------------------------------------------
(* The component with texts of spaces: the user types texts that are empty, *)
(* made of spaces only, or a letter between spaces, and presses             *)
(* suggestions.                                                              *)

SpacedQueries ==
  { <<>>, <<" ">>, <<" ", " ">>, <<" ", "M", " ">> }

InitSpaced == Init

NextSpaced ==
  \/ \E raw \in SpacedQueries : ChangeText(raw)
  \/ TimerFires
  \/ \E f \in BagToSet(inflight), response \in Responses :
        FetchCompletes(f, response)
  \/ \E loop \in BagToSet(preloads), response \in Responses :
        PreloadCompletes(loop, response)
  \/ Rerender
  \/ \E k \in 1..length(rendered.suggestions) : SelectSuggestion(k)

SpecSpaced == InitSpaced /\ [][NextSpaced]_vars

----------------------------------------------------------------------------
(* The component with texts that name a property of Object.prototype: the   *)
(* user types "constructor", the texts one character shorter and longer,    *)
(* and "__proto__", and the requests get a response.                        *)

InheritedQueries ==
  { <<>>, SubSeq(constructorKey, 1, Len(constructorKey) - 1), constructorKey,
    Append(constructorKey, "s"), protoKey }

InitInherited == Init

NextInherited ==
  \/ \E raw \in InheritedQueries : ChangeText(raw)
  \/ TimerFires
  \/ \E f \in BagToSet(inflight), response \in Responses :
        FetchCompletes(f, response)
  \/ Rerender

SpecInherited == InitInherited /\ [][NextInherited]_vars

----------------------------------------------------------------------------
(* The component on the way to the suppression branch: the user types       *)
(* "constructo", "constructor" and longer texts, the requests are answered  *)
(* with the empty list, and the preload requests for "a" and "b" fail while *)
(* that for "c" is answered with an interest that matches the texts.        *)

\* the number of things the user does on the way to the suppression branch
SuppressActions == 3

Constructors ==
  [id |-> "9",
   name |-> <<"C">> \o SubSeq(constructorKey, 2, 11) \o <<"s", "x", "x">>,
   secondary_term |-> undefined]

SuppressQueries ==
  { SubSeq(constructorKey, 1, Len(constructorKey) - 1), constructorKey,
    constructorKey \o <<"s", "x">>, constructorKey \o <<"s", "x", "x">> }

\* what the endpoint answers to the preload request for the letter
SuppressPreload(letter) ==
  IF letter = <<"c">> THEN okResponse(<<Constructors>>) ELSE networkError

\* the user acts SuppressActions times
InitSuppress ==
  /\ Mount
  /\ userActions = SuppressActions

NextSuppress ==
  \/ \E raw \in SuppressQueries : ChangeText(raw)
  \/ TimerFires
  \/ \E f \in BagToSet(inflight) : FetchCompletes(f, okResponse(<<>>))
  \/ \E loop \in BagToSet(preloads) :
        /\ commonFirstLetters[loop.i] \in PreloadAnsweredLetters
        /\ PreloadAnswered(loop, SuppressPreload(commonFirstLetters[loop.i]))
  \/ Rerender

SpecSuppress == InitSuppress /\ [][NextSuppress]_vars

----------------------------------------------------------------------------
(* Claims *)

\* the response f completes a request made for another query than the
\* current one
Stale(f) == normalize(f.query) # normalize(searchQuery)

\* C1: a fetch that completes (success, bad format or failure) after the
\* query has changed to another normalized query does not change the
\* suggestions.
C1_StaleCompletionKeepsSuggestions ==
  [][\A f \in BagToSet(inflight), response \in Responses :
       FetchCompletes(f, response) /\ Stale(f) => suggestions' = suggestions]_vars

\* the match predicate of the specification: the primary or the secondary
\* term, lowercased, includes the normalized query
MatchPredicate(interest, q) ==
  \/ includes(toLowerCase(interest.name), q)
  \/ /\ interest.secondary_term # undefined
     /\ includes(toLowerCase(interest.secondary_term), q)

\* the elements of S that match q, in the order of S
MatchingSubset(S, q) == SelectSeq(S, LAMBDA interest : MatchPredicate(interest, q))

\* the cache holds a key that is a prefix of q and whose entry has an
\* interest matching q
HasMatchingAncestor(cache, q) ==
  \E key \in DOMAIN cache :
     /\ startsWith(q, key)
     /\ MatchingSubset(cache[key], q) # <<>>

\* C2: when a non-empty query is resolved while the cache holds a prefix of
\* it with an interest that matches it, no request is made; with
\* [Music, Movies] stored under "m", resolving "mu" makes no request and
\* shows [Music].
C2_NoRequestWhenAncestorMatches ==
  [][/\ trim(searchQuery) # <<>>
          /\ HasMatchingAncestor(suggestionsCache, normalize(searchQuery))
        => inflight' \sqsubseteq inflight
     /\ TimerFires /\ searchQuery = <<"m", "u">>
          /\ <<"m">> \in DOMAIN suggestionsCache
          /\ <<"m", "u">> \notin DOMAIN suggestionsCache
          /\ suggestionsCache[<<"m">>] = <<Music, Movies>>
        => suggestions' = <<Music>> /\ inflight' = inflight]_vars

\* in the values r of the hooks, the last resolution with results was that
\* of a prefix q of the query raw, with the results S = r.lastSearchResults
ExtendsLastResolved(r, raw) ==
  /\ trim(raw) # <<>>
  /\ r.lastValidQuery # <<>>
  /\ startsWith(normalize(raw), r.lastValidQuery)
  /\ r.lastSearchResults # <<>>

\* a step that resolves the query raw locally: the change of the text to
\* raw, or the timer firing for raw, after which the suggestions are the
\* results of raw
ResolvesLocally(raw) ==
  /\ ChangeText(raw) \/ (TimerFires /\ raw = searchQuery)
  /\ normalize(raw) \in DOMAIN suggestionsCache'
  /\ inflight' = inflight

\* when there are some
ResolvesExtension(r, raw) ==
  LET q2 == normalize(raw)
      S == r.lastSearchResults
  IN ExtendsLastResolved(r, raw) /\ q2 \notin {constructorKey, protoKey}
       => /\ q2 \in DOMAIN r.suggestionsCache
               => /\ suggestions' = r.suggestionsCache[q2]
                  /\ inflight' = inflight
          /\ q2 \notin DOMAIN r.suggestionsCache
               /\ MatchingSubset(S, q2) # <<>>
               => /\ suggestions' = MatchingSubset(S, q2)
                  /\ inflight' = inflight

\* is armed for it
EmptyQueryResolved ==
  /\ trim(searchQuery) = <<>>
  /\ searchTimeout = noTimer

\* C4: once a non-empty result set has been obtained, whenever the query is
\* empty and has been resolved the suggestions are the last valid results,
\* also after the completion of a request made before the query was cleared.
C4_EmptyQueryShowsLastValid ==
  EmptyQueryResolved /\ lastSearchResults # <<>>
    => suggestions = lastSearchResults

\* the current query is not blank and has been resolved with the result set
\* that is shown and cached under it
ResolvedAndCached ==
  /\ trim(searchQuery) # <<>>
  /\ normalize(searchQuery) \in DOMAIN suggestionsCache
  /\ suggestions = suggestionsCache[normalize(searchQuery)]

\* C5: a successful fetch for the current query leaves what it shows in the
\* cache under the normalized query, and resolving a query with the same
\* normalization again shows the same result set and makes no request.
C5_CacheIdempotence ==
  [][/\ \A f \in BagToSet(inflight), response \in Responses :
          FetchCompletes(f, response) /\ response.status = "ok" /\ ~ Stale(f)
            => ResolvedAndCached'
     /\ \A raw \in RawQueries :
          /\ ResolvedAndCached
          /\ normalize(raw) = normalize(searchQuery)
          /\ ChangeText(raw) \/ (TimerFires /\ raw = searchQuery)
          => /\ suggestions' = suggestions
             /\ inflight' = inflight
             /\ suggestionsCache' = suggestionsCache]_vars

\* the identity of interests of the specification: the same id when both
\* have one, the same name otherwise
SameInterest(a, b) ==
  IF a.id # noId /\ b.id # noId THEN a.id = b.id ELSE a.name = b.name

\* no suggestion shown is a selected interest
NoSelectedShown ==
  \A i \in 1..Len(suggestions), k \in 1..Len(selectedInterests) :
     ~ SameInterest(suggestions[i], selectedInterests[k])

\* C6: what a resolution shows, local (the timer firing) or remote (a
\* response arriving), contains no selected interest.
C6_ResolutionExcludesSelected ==
  [][\/ TimerFires
     \/ \E f \in BagToSet(inflight), response \in Responses :
           FetchCompletes(f, response)
     => NoSelectedShown']_vars

\* the prefixes of the normalized query n that have an entry without results
\* in the cache
EmptyAncestors(cache, n) ==
  {k \in DOMAIN cache : startsWith(n, k) /\ cache[k] = <<>>}

\* the state of the suppression bound, in the values r of the hooks: the
\* last valid query is a non-empty prefix of n, the last valid results are
\* empty and a cached prefix of n has no results
SuppressionState(r, n) ==
  /\ r.lastValidQuery # <<>>
  /\ startsWith(n, r.lastValidQuery)
  /\ r.lastSearchResults = <<>>
  /\ EmptyAncestors(r.suggestionsCache, n) # {}

\* the bound: no request and the empty list when n is at most 3 longer than
\* some empty cached prefix, the request when it is more than 3 longer than
\* each of them
SuppressionBound(r, n) ==
  IF \E k \in EmptyAncestors(r.suggestionsCache, n) : Len(n) <= Len(k) + 3
  THEN inflight' = inflight /\ suggestions' = <<>>
  ELSE inflight'
         = inflight (+) SetToBag({Request(searchQuery, r.selectedInterests)})

\* and no cached prefix of n holds an interest that matches n
NoLocalResults(r, n) ==
  /\ ~ (/\ n \in DOMAIN r.suggestionsCache
        /\ r.suggestionsCache[n] # <<>>)
  /\ n \notin {constructorKey, protoKey}
  /\ ~ HasMatchingAncestor(r.suggestionsCache, n)

\* other two of line 630
Separators == {":", "|", "-"}

\* the position of the first separator of text, 0 when it has none
FirstSeparator(text) ==
  IF \E i \in 1..Len(text) : text[i] \in Separators
  THEN CHOOSE i \in 1..Len(text) :
          /\ text[i] \in Separators
          /\ \A j \in 1..(i - 1) : text[j] \notin Separators
  ELSE 0

\* the interest that the specification creates from a text: for a primary
\* part, the first separator and a secondary part, the two parts trimmed;
\* for a text without separator, the text trimmed and no secondary term
Created(text) ==
  LET j == FirstSeparator(text)
  IN IF j = 0
     THEN [id |-> noId, name |-> trim(text), secondary_term |-> undefined]
     ELSE [id |-> noId, name |-> trim(SubSeq(text, 1, j - 1)),
           secondary_term |-> trim(SubSeq(text, j + 1, Len(text)))]

\* text has one of the two forms: no separator, or a non-empty primary part,
\* a separator and a non-blank secondary part
HasForm(text) ==
  LET j == FirstSeparator(text)
  IN \/ j = 0
     \/ j > 1 /\ trim(SubSeq(text, j + 1, Len(text))) # <<>>

\* C8: creating a custom interest from a non-blank text appends an interest
\* without id to the selection and empties the query; the interest is
\* Created(text) when the text has one of the two forms; on a blank text
\* nothing changes.
C8_CustomInterestCreation ==
  [][PressCreate =>
       IF trim(searchQuery) = <<>>
       THEN UNCHANGED <<searchQuery, selectedInterests, suggestions,
                        suggestionsCache, lastSearchResults, lastValidQuery>>
       ELSE /\ Len(selectedInterests') = Len(selectedInterests) + 1
            /\ SubSeq(selectedInterests', 1, Len(selectedInterests))
                 = selectedInterests
            /\ selectedInterests'[Len(selectedInterests')].id = noId
            /\ HasForm(searchQuery)
                 => selectedInterests'[Len(selectedInterests')]
                      = Created(searchQuery)
            /\ searchQuery' = <<>>]_vars

\* the interest of "Music: Rock" has been created after Music was selected
C8_Witness ==
  /\ searchQuery = <<>>
  /\ selectedInterests
       = <<Music, [id |-> noId, name |-> <<"M", "u", "s", "i", "c">>,
                   secondary_term |-> <<"R", "o", "c", "k">>]>>

\* the responses of a failed fetch: a transport error or a status that is
\* not 2xx, and a body without a list in its autocomplete field
Failures == {networkError, badFormat}

\* C9: when a remote fetch fails, error is set, the suggestions are empty,
\* loading is false, and the cache, lastValidQuery and lastSearchResults are
\* what they were before the completion.
C9_FailureLeavesCacheUntouched ==
  [][\A f \in BagToSet(inflight), response \in Failures :
       FetchCompletes(f, response)
         => /\ error' \in {failedMessage, invalidMessage}
            /\ suggestions' = <<>>
            /\ loading' = FALSE
            /\ UNCHANGED <<suggestionsCache, lastValidQuery,
                           lastSearchResults>>]_vars

\* the request for "m" has failed: the error is shown and "m" has no entry
C9_Witness ==
  /\ error = failedMessage
  /\ loading = FALSE
  /\ suggestions = <<>>
  /\ searchQuery = <<"m">>
  /\ inflight = EmptyBag
  /\ <<"m">> \notin DOMAIN suggestionsCache

\* C10: once a request has been issued for the query text, no further
\* request is issued until the user changes the text, whatever else happens.
C10_OneRequestPerQueryChange ==
  [][requested => inflight' \sqsubseteq inflight]_vars

\* C11: after every successful resolution by the timer callback (empty
\* query, exact cache hit, fallback filter, ancestor filter) the error is
\* null and loading is false.
C11_ResolutionClearsError ==
  [][TimerFires /\ timerCallback(State, searchQuery).ok
       => error' = null /\ loading' = FALSE]_vars

\* the render in which the text is raw
Typed(raw) == rerendered([State EXCEPT !.searchQuery = raw])

\* the timer callback decides the same for the two texts: the same branch,
\* the same request or none, and the same cache, suggestions, last valid
\* query and last search results after it
SameDecision(r1, r2) ==
  LET o1 == timerCallback(Typed(r1), r1)
      o2 == timerCallback(Typed(r2), r2)
  IN /\ o1.path = o2.path
     /\ o1.ok = o2.ok
     /\ o1.s.suggestionsCache = o2.s.suggestionsCache
     /\ o1.s.suggestions = o2.s.suggestions
     /\ o1.s.lastValidQuery = o2.s.lastValidQuery
     /\ o1.s.lastSearchResults = o2.s.lastSearchResults

\* the search effect arms the same timer for the two texts
SameDelay(r1, r2) ==
  searchEffect(Typed(r1)).timer = searchEffect(Typed(r2)).timer

\* C12: in every state, two texts with the same normalization get the same
\* resolution decision, read and write the same cache key, and get the same
\* debounce interval.
C12_SameNormalizationSameQuery ==
  \A r1, r2 \in RawQueries :
     normalize(r1) = normalize(r2)
       => SameDecision(r1, r2) /\ SameDelay(r1, r2)

\* C13: in every state at most one preload request is in flight (one loop
\* awaits one response), so that no letter is requested twice.
C13_OnePreloadRequest ==
  BagCardinality(preloads) <= 1

\* the positions after that of the loop whose letters have no cache entry
RemainingUncached(loop) ==
  {j \in (loop.i + 1)..Len(commonFirstLetters) :
      commonFirstLetters[j] \notin DOMAIN suggestionsCache}

\* after the step the loop awaits the response for a later letter and has
\* not passed over a letter without cache entry
GoesOn(loop) ==
  \E l \in BagToSet(preloads') :
     /\ l.i > loop.i
     /\ \A j \in RemainingUncached(loop) : l.i <= j
     /\ [l EXCEPT !.i = loop.i] = loop
     /\ CopiesIn(l, preloads') > CopiesIn(l, preloads)

\* C14: when the preload request for a letter fails, the error, the
\* suggestions, loading, the cache, lastValidQuery and lastSearchResults are
\* unchanged, and the loop goes on with the next letter as long as a letter
\* without cache entry remains.
C14_PreloadFailureIsolated ==
  [][\A loop \in BagToSet(preloads), response \in Failures :
       PreloadAnswered(loop, response)
         => /\ UNCHANGED <<error, suggestions, loading, suggestionsCache,
                           lastValidQuery, lastSearchResults>>
            /\ RemainingUncached(loop) # {} => GoesOn(loop)]_vars

\* the requests for "a" and "b" have failed and a loop awaits "c"
C14_Witness ==
  /\ <<"a">> \notin DOMAIN suggestionsCache
  /\ <<"b">> \notin DOMAIN suggestionsCache
  /\ \E l \in BagToSet(preloads) : l.i = 3
  /\ error = null
  /\ suggestions = <<>>

\* C15: when the preload request for a letter succeeds with a non-empty
\* list, lastValidQuery and lastSearchResults become that letter and its
\* results if no query has had results before (lastValidQuery is empty),
\* and are unchanged otherwise.
C15_PreloadSeedsEmptyFallback ==
  [][\A loop \in BagToSet(preloads), response \in Responses :
       /\ PreloadAnswered(loop, response)
       /\ response.status = "ok"
       /\ response.autocomplete # <<>>
       => IF lastValidQuery = <<>>
          THEN /\ lastValidQuery' = commonFirstLetters[loop.i]
               /\ lastSearchResults' # <<>>
          ELSE UNCHANGED <<lastValidQuery, lastSearchResults>>]_vars

\* a step of one of the three selection handlers
SelectionChanges ==
  \/ \E k \in 1..length(rendered.suggestions) : SelectSuggestion(k)
  \/ \E k \in 1..Len(selectedInterests) : RemoveInterest(k)
  \/ CreateCustomInterest

\* the state s has the resolver data of the component
KeepsResolverData(s) ==
  /\ s.suggestionsCache = suggestionsCache
  /\ s.allFetchedSuggestions = allFetchedSuggestions
  /\ s.lastValidQuery = lastValidQuery
  /\ s.lastSearchResults = lastSearchResults

\* what each of the three handlers sets, for every press that the screen
\* allows, has the resolver data of the component
HandlersKeepResolverData ==
  /\ \A k \in 1..length(rendered.suggestions) :
        KeepsResolverData(
          handleSelectSuggestion(State, rendered.suggestions[k]).s)
  /\ \A k \in 1..Len(selectedInterests) :
        KeepsResolverData(handleRemoveInterest(State, selectedInterests[k]).s)
  /\ KeepsResolverData(handleCreateCustomInterest(State).s)

\* C16: select, deselect and the creation of a custom interest leave the
\* cache, the accumulator, lastValidQuery and lastSearchResults unchanged:
\* the handlers set none of them, and when React has rendered all that was
\* set before the event, the render and the effects that end the event set
\* none either; select and create empty the query, deselect leaves it.
C16_SelectionKeepsResolverData ==
  [][SelectionChanges
       => /\ HandlersKeepResolverData
          /\ allFetchedSuggestions' = allFetchedSuggestions
          /\ ~ RenderPending
               => UNCHANGED <<suggestionsCache, lastValidQuery,
                              lastSearchResults>>
          /\ (\E k \in 1..Len(selectedInterests) : RemoveInterest(k))
               => searchQuery' = searchQuery
          /\ Len(selectedInterests') > Len(selectedInterests)
               => searchQuery' = <<>>]_vars

\* Music has been selected from the results of "m", which are still cached
\* and still the last search results
C16_Witness ==
  /\ selectedInterests = <<Music>>
  /\ searchQuery = <<>>
  /\ <<"m">> \in DOMAIN suggestionsCache
  /\ suggestionsCache[<<"m">>] = <<Music, Movies>>
  /\ lastValidQuery = <<"m">>
  /\ lastSearchResults = <<Music, Movies>>

\* C17: a fetch that completes after the query has changed to another
\* normalized query leaves the cache, lastValidQuery and lastSearchResults
\* unchanged.
C17_StaleCompletionKeepsCache ==
  [][\A f \in BagToSet(inflight), response \in Responses :
       FetchCompletes(f, response) /\ Stale(f)
         => UNCHANGED <<suggestionsCache, lastValidQuery,
                        lastSearchResults>>]_vars

\* C18: at most one debounce timer is pending, and it is the one armed for
\* the current text: the callback of a superseded text is never pending, so
\* it never runs and never makes a request.
C18_OneTimerForCurrentQuery ==
  /\ Len(timers) <= 1
  /\ \A i \in 1..Len(timers) : timers[i] = searchQuery

\* "mu" was typed while the timer of the text before it was pending: no
\* request was made, and the one pending timer is that of "mu"
C18_Witness ==
  /\ searchQuery = <<"m", "u">>
  /\ timers = << <<"m", "u">> >>
  /\ userActions = MaxUserActions - 2
  /\ selectedInterests = <<>>
  /\ inflight = EmptyBag
  /\ error = null
  /\ <<"m">> \notin DOMAIN suggestionsCache

\* the interval of the specification for the text raw and the last valid
\* query lvq
Interval(raw, lvq) ==
  LET q == normalize(raw)
  IN IF Len(q) <= 1 THEN 100
     ELSE IF lvq # <<>> /\ startsWith(q, lvq) /\ Len(q) > Len(lvq) THEN 800
     ELSE 300

\* C19: the armed debounce timer has the interval 100 if the normalized
\* query has at most one character, else 800 if the normalized query starts
\* with the non-empty lastValidQuery and is longer, else 300.
C19_DebounceInterval ==
  searchTimeout # noTimer
    => searchTimeout = Interval(searchQuery, lastValidQuery)

\* the cached keys that are prefixes of n
Ancestors(cache, n) == {key \in DOMAIN cache : startsWith(n, key)}

\* n has no cache entry, the filter of the last search results does not
\* answer it, and the entry of its longest cached prefix has no interest
\* that matches it
LongestAncestorMisses(n) ==
  /\ n # <<>>
  /\ n \notin DOMAIN suggestionsCache
  /\ ~ (/\ lastValidQuery # <<>>
        /\ startsWith(n, lastValidQuery)
        /\ MatchingSubset(lastSearchResults, n) # <<>>)
  /\ Ancestors(suggestionsCache, n) # {}
  /\ \A key \in Ancestors(suggestionsCache, n) :
        (\A other \in Ancestors(suggestionsCache, n) : Len(other) <= Len(key))
          => MatchingSubset(suggestionsCache[key], n) = <<>>

\* C20: when the entry of the longest cached prefix of the query has no
\* match, local resolution misses: the timer callback writes no cache entry
\* and either makes the request or shows the empty list; it does not answer
\* from a shorter cached prefix.
C20_OnlyLongestAncestor ==
  [][TimerFires /\ LongestAncestorMisses(normalize(searchQuery))
       => /\ suggestionsCache' = suggestionsCache
          /\ inflight' # inflight \/ suggestions' = <<>>]_vars

\* the candidates of list that are not the same interest as an element of
\* selected
Unselected(list, selected) ==
  SelectSeq(list, LAMBDA candidate :
     \A k \in 1..Len(selected) : ~ SameInterest(selected[k], candidate))

\* C21: a successful fetch for q writes its selection-filtered result to the
\* cache under normalize(q), also when it is empty; when q is still the
\* query, lastValidQuery and lastSearchResults become normalize(q) and the
\* result if it is not empty and are unchanged if it is empty.  Resolving a
\* query whose cache entry is empty shows the empty list without a request.
C21_FetchWritesCache ==
  [][/\ \A f \in BagToSet(inflight), response \in Responses :
          FetchCompletes(f, response) /\ response.status = "ok"
            => LET key == normalize(f.query)
                   result == Unselected(response.autocomplete,
                                        f.selectedInterests)
               IN /\ key \in DOMAIN suggestionsCache'
                  /\ suggestionsCache'[key] = result
                  /\ ~ Stale(f) /\ result # <<>>
                       => lastValidQuery' = key /\ lastSearchResults' = result
                  /\ ~ Stale(f) /\ result = <<>>
                       => UNCHANGED <<lastValidQuery, lastSearchResults>>
     /\ /\ TimerFires
        /\ trim(searchQuery) # <<>>
        /\ normalize(searchQuery) \in DOMAIN suggestionsCache
        /\ suggestionsCache[normalize(searchQuery)] = <<>>
        => suggestions' = <<>> /\ inflight' = inflight]_vars

\* C22: the list that a successful fetch keeps is the list of the returned
\* candidates that are not the same interest as an element of the selection
\* current when the response arrives: same id when both have one, same name
\* otherwise.
C22_FilterByIdentityRule ==
  [][\A f \in BagToSet(inflight), response \in FilterResponses :
       FetchCompletes(f, response)
         => /\ normalize(f.query) \in DOMAIN suggestionsCache'
            /\ suggestionsCache'[normalize(f.query)]
                 = Unselected(response.autocomplete, selectedInterests)]_vars

\* C23: no two elements of the accumulator are the same interest, and a
\* step only appends to it.
C23_AccumulatorDeduplicated ==
  [][/\ \A i, j \in 1..Len(allFetchedSuggestions') :
          i < j => ~ SameInterest(allFetchedSuggestions'[i],
                                  allFetchedSuggestions'[j])
     /\ Len(allFetchedSuggestions') >= Len(allFetchedSuggestions)
     /\ SubSeq(allFetchedSuggestions', 1, Len(allFetchedSuggestions))
          = allFetchedSuggestions]_vars

\* the preload loops that await a response after the step and did not
\* before it: the requests issued by the step
IssuedPreloads ==
  {l \in BagToSet(preloads') : CopiesIn(l, preloads') > CopiesIn(l, preloads)}

\* C24: a preload request is issued only for a letter without cache entry,
\* and the response to a preload request leaves the entry of a letter that
\* has one as it is.
C24_PreloadRespectsCache ==
  [][/\ \A l \in IssuedPreloads :
          commonFirstLetters[l.i] \notin DOMAIN suggestionsCache'
     /\ \A loop \in BagToSet(preloads), response \in Responses :
          /\ PreloadAnswered(loop, response)
          /\ commonFirstLetters[loop.i] \in DOMAIN suggestionsCache
          => suggestionsCache'[commonFirstLetters[loop.i]]
               = suggestionsCache[commonFirstLetters[loop.i]]]_vars

\* C25: lastValidQuery is non-empty exactly when lastSearchResults is, the
\* last search results never become empty again, and for no text the state
\* is that of the suppression branch (the last valid query a non-empty
\* prefix of the query with empty last results).
C25_FallbackPairNonEmpty ==
  /\ [](/\ (lastValidQuery # <<>>) <=> (lastSearchResults # <<>>)
        /\ \A raw \in RawQueries \cup InheritedQueries :
              ~ (/\ lastValidQuery # <<>>
                 /\ startsWith(normalize(raw), normalize(lastValidQuery))
                 /\ lastSearchResults = <<>>))
  /\ [][lastSearchResults # <<>> => lastSearchResults' # <<>>]_vars

\* C26: when lastValidQuery is not empty, the cache has an entry under it
\* and the entry is lastSearchResults.
C26_FallbackIsCached ==
  lastValidQuery # <<>>
    => /\ lastValidQuery \in DOMAIN suggestionsCache
       /\ suggestionsCache[lastValidQuery] = lastSearchResults

\* the timer callback gets to the closest-parent step of fetchSuggestions:
\* the query is not blank, local filtering has returned false and the
\* suppression branch is not taken
ReachesClosestParent ==
  /\ trim(searchQuery) # <<>>
  /\ ~ filterSuggestionsLocally(State, searchQuery).ok
  /\ ~ suppressed(State, normalize(searchQuery))

\* C27: when the timer callback gets to the closest-parent step, the entry
\* of the closest cached parent has no interest matching the query, and the
\* callback makes the request.
C27_ClosestParentNeverResolves ==
  [][TimerFires /\ ReachesClosestParent
       => /\ closestParentResults(State, normalize(searchQuery)) = <<>>
          /\ inflight'
               = inflight (+) SetToBag({Request(searchQuery, selectedInterests)})
          /\ loading' = TRUE
          /\ suggestionsCache' = suggestionsCache]_vars

\* "Trexx " has been requested although its prefix "t" is cached with
\* [Trex], which does not match it
C27_Witness ==
  /\ searchQuery = <<"T", "r", "e", "x", "x", " ">>
  /\ inflight = SetToBag({Request(searchQuery, <<>>)})
  /\ loading = TRUE
  /\ <<"t">> \in DOMAIN suggestionsCache
  /\ suggestionsCache[<<"t">>] = <<Trex>>

\* no timer is armed, no request of fetchSuggestions and no request of a
\* preload loop is in flight, and loading is false
Quiescent ==
  /\ timers = <<>>
  /\ inflight = EmptyBag
  /\ preloads = EmptyBag
  /\ loading = FALSE

\* ids that are both present, and none have equal names.
C29_SelectionDuplicateFree ==
  \A i, j \in 1..Len(selectedInterests) :
     i # j =>
       /\ ~ (/\ selectedInterests[i].id # noId
             /\ selectedInterests[j].id # noId
             /\ selectedInterests[i].id = selectedInterests[j].id)
       /\ selectedInterests[i].name # selectedInterests[j].name

\* the query is empty or made of whitespace only
Blank(query) == \A i \in 1..Len(query) : query[i] \in Whitespace

\* every key of the cache is a non-empty, trimmed, lowercase string
KeysNormalized ==
  \A key \in DOMAIN suggestionsCache :
     /\ key # <<>>
     /\ ~ Blank(key)
     /\ trim(key) = key
     /\ toLowerCase(key) = key

\* a step of the user or of the timer that leaves a blank query makes no
\* request and leaves the cache as it is
BlankQueryStep ==
  /\ Blank(searchQuery')
  /\ \/ TimerFires
     \/ \E raw \in SpacedQueries : ChangeText(raw)
     \/ \E k \in 1..length(rendered.suggestions) : SelectSuggestion(k)

\* C30: a blank query makes no request and writes no cache entry, and all
\* the keys of the cache are non-empty, trimmed, lowercase strings.
C30_BlankQueryNeverCached ==
  /\ []KeysNormalized
  /\ [][BlankQueryStep
          => /\ inflight' = inflight
             /\ suggestionsCache' = suggestionsCache]_vars

\* the timers of " M " and of a text of spaces have fired: the cache has
\* the entry of "m" and no other, and no request is pending
C30_Witness ==
  /\ searchQuery \in { <<" ">>, <<" ", " ">> }
  /\ timers = <<>>
  /\ inflight = EmptyBag
  /\ DOMAIN suggestionsCache = { <<"m">> }

====
